---- MODULE Spec2Model ----
(***************************************************************************)
(* Model of packages/nextjs/app/page.tsx of monad-pages: the chunkString   *)
(* helper and the Deployer form component (handleDeploy, the FileReader    *)
(* callbacks, the awaited deployPage call and the form inputs).            *)
(*                                                                         *)
(* Strings that are cut into pieces are sequences of one-character         *)
(* strings; positions are 0-based as in JavaScript and converted to the    *)
(* 1-based positions of Sequences only inside substring.                   *)
(***************************************************************************)
EXTENDS Integers, Sequences, FiniteSets, TLC

\* ---------------------------------------------------------------- bounds
MaxLen == 5
MaxSize == 3
MaxInvocations == 2

\* ---------------------------------------------------------------- values
NULL == "null"
UNDEFINED == "undefined"

Alphabet == {"a", "b"}
Strs == UNION {[1..k -> Alphabet] : k \in 0..MaxLen}
Sizes == 1..MaxSize

VARIABLES
  str,               \* chunkString: argument str
  size,              \* chunkString: argument size
  chunks,            \* chunkString: the returned array
  returned,          \* chunkString: TRUE once the call has returned
  file,              \* Deployer: useState<File | null>
  title,             \* Deployer: useState("")
  connectedAddress,  \* Deployer: useAccount().address
  invocations        \* one record per handleDeploy invocation, in order

vars == <<str, size, chunks, returned, file, title, connectedAddress, invocations>>
chunkVars == <<str, size, chunks, returned>>
formVars == <<file, title, connectedAddress, invocations>>

\* ------------------------------------------------------------ chunkString
Min(a, b) == IF a < b THEN a ELSE b
Max(a, b) == IF a > b THEN a ELSE b

\* Math.ceil(a / b) for a >= 0, b > 0
MathCeilDiv(a, b) == (a + b - 1) \div b

\* String.prototype.substring(start, end): both indices are clamped to
\* [0, length] and swapped when start > end.
substring(s, start, end) ==
  LET fs == Min(Max(start, 0), Len(s))
      fe == Min(Max(end, 0), Len(s))
      from == Min(fs, fe)
      to == Max(fs, fe)
  IN SubSeq(s, from + 1, to)

numChunksFloor(s, n) == Len(s) \div n
numChunks(s, n) == MathCeilDiv(Len(s), n)

\* chunks[i] = str.substring(o, size) with o = i * size (i 0-based)
chunkString(s, n) ==
  [k \in 1..numChunks(s, n) |-> substring(s, (k - 1) * n, n)]

RECURSIVE join(_)
join(cs) == IF cs = <<>> THEN <<>> ELSE Head(cs) \o join(Tail(cs))

CallChunkString ==
  /\ ~returned
  /\ chunks' = chunkString(str, size)
  /\ returned' = TRUE
  /\ UNCHANGED <<str, size>>
  /\ UNCHANGED formVars

\* --------------------------------------------------------------- Deployer
Titles == {"", "My Page"}
Files == {"index.html", "empty.txt"}
FileType(f) == IF f = "index.html" THEN "text/html" ELSE "text/plain"
FileContent(f) == IF f = "index.html" THEN <<"a", "b">> ELSE <<>>
Addresses == {"0xA11ce"}
Errors ==
  { [shortMessage |-> "User rejected the request.", message |-> "User rejected the request. Details: ..."],
    [shortMessage |-> UNDEFINED, message |-> "execution reverted"] }

CHUNK_SIZE == 24 * 1024

Truthy(v) == v # NULL /\ v # UNDEFINED /\ v # ""

Msg(kind, text) == [kind |-> kind, text |-> text]

InFlight == {"ReadingFile", "AwaitingDeploy"}
Terminal == {"Succeeded", "Failed"}

\* isPending of useScaffoldWriteContract: a deployPage call of this
\* component is pending.
isDeploying ==
  \E a \in DOMAIN invocations : invocations[a].st = "AwaitingDeploy"

Update(a, r) == [invocations EXCEPT ![a] = r]

\* handleDeploy without the connectedAddress check
handleDeployNoWalletCheck ==
  /\ Len(invocations) < MaxInvocations
  /\ LET base == [title |-> title, file |-> file, reads |-> <<>>, result |-> <<>>, calls |-> <<>>]
     IN IF ~Truthy(file) \/ ~Truthy(title)
        THEN invocations' = Append(invocations,
               base @@ [st |-> "Idle",
                        toast |-> <<Msg("error", <<"Please provide a title and select a file.">>)>>])
        ELSE invocations' = Append(invocations,
               [base EXCEPT !.reads = <<file>>] @@
                 [st |-> "ReadingFile",
                  toast |-> <<Msg("loading", <<"Reading and preparing your file...">>)>>])
  /\ UNCHANGED <<file, title, connectedAddress>>
  /\ UNCHANGED chunkVars

\* handleDeploy, up to the point where it returns to the event loop
handleDeploy ==
  /\ Len(invocations) < MaxInvocations
  /\ LET base == [title |-> title, file |-> file, reads |-> <<>>, result |-> <<>>, calls |-> <<>>]
     IN IF ~Truthy(file) \/ ~Truthy(title)
        THEN invocations' = Append(invocations,
               base @@ [st |-> "Idle",
                        toast |-> <<Msg("error", <<"Please provide a title and select a file.">>)>>])
        ELSE IF ~Truthy(connectedAddress)
        THEN invocations' = Append(invocations,
               base @@ [st |-> "Idle",
                        toast |-> <<Msg("error", <<"Please connect your wallet to deploy.">>)>>])
        ELSE invocations' = Append(invocations,
               [base EXCEPT !.reads = <<file>>] @@
                 [st |-> "ReadingFile",
                  toast |-> <<Msg("loading", <<"Reading and preparing your file...">>)>>])
  /\ UNCHANGED <<file, title, connectedAddress>>
  /\ UNCHANGED chunkVars

\* the "Deploy Page" button: onClick={handleDeploy} disabled={isDeploying}
DeployButtonClick ==
  /\ ~isDeploying
  /\ handleDeploy

\* reader.onload, up to the await of deployPage
ReaderOnload(a) ==
  /\ a \in DOMAIN invocations
  /\ invocations[a].st = "ReadingFile"
  /\ LET r == invocations[a]
         content == FileContent(r.file)  \* readerEvent.target.result
         contentChunks == chunkString(content, CHUNK_SIZE)
         call == [functionName |-> "deployPage",
                  args |-> [title |-> r.title,
                            contentChunks |-> contentChunks,
                            contentType |-> FileType(r.file)]]
     IN invocations' = Update(a,
          [r EXCEPT !.st = "AwaitingDeploy",
                    !.toast = Append(@, Msg("loading", <<"Please confirm in your wallet...">>)),
                    !.result = <<content>>,
                    !.calls = Append(@, call)])
  /\ UNCHANGED <<file, title, connectedAddress>>
  /\ UNCHANGED chunkVars

\* reader.onerror
ReaderOnerror(a) ==
  /\ a \in DOMAIN invocations
  /\ invocations[a].st = "ReadingFile"
  /\ invocations' = Update(a,
       [invocations[a] EXCEPT
          !.st = "Failed",
          !.toast = Append(@, Msg("error", <<"Error reading the selected file.">>))])
  /\ UNCHANGED <<file, title, connectedAddress>>
  /\ UNCHANGED chunkVars

\* the continuation without setFile(null)
DeployResolveKeepsFile(a) ==
  /\ a \in DOMAIN invocations
  /\ invocations[a].st = "AwaitingDeploy"
  /\ invocations' = Update(a,
       [invocations[a] EXCEPT
          !.st = "Succeeded",
          !.toast = Append(@, Msg("success", <<"Page deployed successfully!">>))])
  /\ title' = ""
  /\ UNCHANGED <<file, connectedAddress>>
  /\ UNCHANGED chunkVars

\* the continuation of reader.onload after deployPage resolved
DeployResolve(a) ==
  /\ a \in DOMAIN invocations
  /\ invocations[a].st = "AwaitingDeploy"
  /\ invocations' = Update(a,
       [invocations[a] EXCEPT
          !.st = "Succeeded",
          !.toast = Append(@, Msg("success", <<"Page deployed successfully!">>))])
  /\ title' = ""
  /\ file' = NULL
  /\ UNCHANGED connectedAddress
  /\ UNCHANGED chunkVars

\* error.shortMessage || error.message
ErrorText(e) == IF Truthy(e.shortMessage) THEN e.shortMessage ELSE e.message

\* a catch block that also resets the form
DeployRejectClearsForm(a, e) ==
  /\ a \in DOMAIN invocations
  /\ invocations[a].st = "AwaitingDeploy"
  /\ invocations' = Update(a,
       [invocations[a] EXCEPT
          !.st = "Failed",
          !.toast = Append(@, Msg("error", <<"Error: ", ErrorText(e)>>))])
  /\ title' = ""
  /\ file' = NULL
  /\ UNCHANGED connectedAddress
  /\ UNCHANGED chunkVars

\* a catch block that calls deployPage again
DeployRejectRetries(a, e) ==
  /\ a \in DOMAIN invocations
  /\ invocations[a].st = "AwaitingDeploy"
  /\ Len(invocations[a].calls) < 2
  /\ invocations' = Update(a,
       [invocations[a] EXCEPT !.calls = Append(@, invocations[a].calls[1])])
  /\ UNCHANGED <<file, title, connectedAddress>>
  /\ UNCHANGED chunkVars

\* no catch block: the rejection escapes and nothing is surfaced
DeployRejectUncaught(a, e) ==
  /\ a \in DOMAIN invocations
  /\ invocations[a].st = "AwaitingDeploy"
  /\ invocations' = Update(a, [invocations[a] EXCEPT !.st = "Failed"])
  /\ UNCHANGED <<file, title, connectedAddress>>
  /\ UNCHANGED chunkVars

\* the catch block of reader.onload after deployPage rejected with e
DeployReject(a, e) ==
  /\ a \in DOMAIN invocations
  /\ invocations[a].st = "AwaitingDeploy"
  /\ invocations' = Update(a,
       [invocations[a] EXCEPT
          !.st = "Failed",
          !.toast = Append(@, Msg("error", <<"Error: ", ErrorText(e)>>))])
  /\ UNCHANGED <<file, title, connectedAddress>>
  /\ UNCHANGED chunkVars

\* title input: onChange={e => setTitle(e.target.value)} disabled={isDeploying}
SetTitle(t) ==
  /\ ~isDeploying
  /\ t # title
  /\ title' = t
  /\ UNCHANGED <<file, connectedAddress, invocations>>
  /\ UNCHANGED chunkVars

\* file input: onChange={e => e.target.files && setFile(e.target.files[0])};
\* files[0] is undefined when the selection was cleared
SetFile(f) ==
  /\ ~isDeploying
  /\ f # file
  /\ file' = f
  /\ UNCHANGED <<title, connectedAddress, invocations>>
  /\ UNCHANGED chunkVars

\* useAccount(): the wallet connects or disconnects
AccountChange(addr) ==
  /\ addr # connectedAddress
  /\ connectedAddress' = addr
  /\ UNCHANGED <<file, title, invocations>>
  /\ UNCHANGED chunkVars

\* ---------------------------------------------------------- specifications
InitForm ==
  /\ file = NULL
  /\ title = ""
  /\ connectedAddress \in Addresses \cup {UNDEFINED}
  /\ invocations = <<>>

Init ==
  /\ InitForm
  /\ str = <<>>
  /\ size = CHUNK_SIZE
  /\ chunks = <<>>
  /\ returned = TRUE

Next ==
  \/ DeployButtonClick
  \/ \E a \in 1..MaxInvocations : ReaderOnload(a)
  \/ \E a \in 1..MaxInvocations : ReaderOnerror(a)
  \/ \E a \in 1..MaxInvocations : DeployResolve(a)
  \/ \E a \in 1..MaxInvocations, e \in Errors : DeployReject(a, e)
  \/ \E t \in Titles : SetTitle(t)
  \/ \E f \in Files \cup {UNDEFINED} : SetFile(f)
  \/ \E addr \in Addresses \cup {UNDEFINED} : AccountChange(addr)

Spec == Init /\ [][Next]_vars

\* every external event eventually fires: a started read completes or
\* errors, a pending deployPage call resolves or rejects
Fairness ==
  \A a \in 1..MaxInvocations :
    /\ WF_vars(ReaderOnload(a) \/ ReaderOnerror(a))
    /\ WF_vars(DeployResolve(a) \/ \E e \in Errors : DeployReject(a, e))

FairSpec == Spec /\ Fairness

\* chunkString applied to every bounded input
InitChunk ==
  /\ str \in Strs
  /\ size \in Sizes
  /\ chunks = <<>>
  /\ returned = FALSE
  /\ file = NULL
  /\ title = ""
  /\ connectedAddress = UNDEFINED
  /\ invocations = <<>>

NextChunk == CallChunkString

SpecChunk == InitChunk /\ [][NextChunk]_vars

\* ------------------------------------------------------------- properties
\* C1: join(chunkString(s, n)) = s for every string s and positive n.
RoundTrip == returned => join(chunks) = str

\* C2: every element of chunkString(s, n) has length at most n.
ChunkSizeBound ==
  returned => \A k \in DOMAIN chunks : Len(chunks[k]) <= size

\* C3: for a non-empty s no element of chunkString(s, n) is empty.
NoEmptyChunks ==
  (returned /\ str # <<>>) => \A k \in DOMAIN chunks : chunks[k] # <<>>

\* C4: for a non-empty s, chunkString(s, n) has exactly ceil(len(s)/n)
\* elements (the least k with k * n >= len(s)); for the empty string the
\* result is the empty sequence or a single empty element.
ChunkCount ==
  returned =>
    IF str # <<>>
    THEN /\ Len(chunks) * size >= Len(str)
         /\ (Len(chunks) - 1) * size < Len(str)
    ELSE chunks \in {<<>>, << <<>> >>}

ChunkCountWitness ==
  /\ returned
  /\ Len(str) > 2 * size
  /\ Len(str) % size # 0
  /\ Len(chunks) >= 3

Last(q) == q[Len(q)]

\* C5: a handleDeploy invocation with the file unset, the title empty or no
\* wallet connected stays Idle, surfaces an error message, starts no file
\* read, never calls deployPage and leaves title and file unchanged.
SubmitGating ==
  [][ /\ ( /\ Len(invocations') = Len(invocations) + 1
           /\ (~Truthy(file) \/ ~Truthy(title) \/ ~Truthy(connectedAddress)) )
         => /\ Last(invocations').st = "Idle"
            /\ Last(invocations').reads = <<>>
            /\ Last(invocations').calls = <<>>
            /\ Last(Last(invocations').toast).kind = "error"
            /\ title' = title
            /\ file' = file
            /\ SubSeq(invocations', 1, Len(invocations)) = invocations
      /\ \A a \in DOMAIN invocations :
           invocations[a].st = "Idle" => invocations'[a] = invocations[a]
    ]_vars

SubmitGatingWitness ==
  \E a \in DOMAIN invocations :
    /\ invocations[a].st = "Idle"
    /\ Truthy(invocations[a].file)
    /\ Truthy(invocations[a].title)
    /\ Last(invocations[a].toast).kind = "error"
    /\ a < Len(invocations)

\* C6: when an attempt reaches Succeeded a success message is surfaced and
\* title is "" and file is null afterwards, whatever the form held.
SuccessClearsForm ==
  [][ \A a \in DOMAIN invocations :
        (invocations[a].st # "Succeeded" /\ invocations'[a].st = "Succeeded")
          => /\ title' = ""
             /\ file' = NULL
             /\ Last(invocations'[a].toast).kind = "success"
    ]_vars

SuccessClearsFormWitness ==
  \E a, b \in DOMAIN invocations :
    /\ a < b
    /\ invocations[a].st = "Succeeded"
    /\ invocations[b].st = "ReadingFile"
    /\ invocations[b].file # invocations[a].file
    /\ title = ""
    /\ file = NULL

\* C7: when an attempt ends in Failed an error message is surfaced and the
\* step does not modify title or file.
FailureLeavesForm ==
  [][ \A a \in DOMAIN invocations :
        (invocations[a].st # "Failed" /\ invocations'[a].st = "Failed")
          => /\ title' = title
             /\ file' = file
             /\ Last(invocations'[a].toast).kind = "error"
    ]_vars

FailureLeavesFormWitness ==
  \E a \in DOMAIN invocations :
    /\ invocations[a].st = "Failed"
    /\ Len(invocations[a].calls) = 1
    /\ title = invocations[a].title
    /\ file = invocations[a].file

\* C8: at most one submission attempt of the form is in flight.
SerializedSubmissions ==
  Cardinality({a \in DOMAIN invocations : invocations[a].st \in InFlight}) <= 1

\* C9: an attempt starts at most one file read and calls deployPage at most
\* once, only after the read delivered its result; a failed attempt starts
\* no further read or call.
NoAutomaticRetry ==
  [][ /\ \A a \in DOMAIN invocations' :
           /\ Len(invocations'[a].reads) <= 1
           /\ Len(invocations'[a].calls) <= 1
           /\ invocations'[a].calls # <<>> =>
                /\ invocations'[a].reads # <<>>
                /\ invocations'[a].result # <<>>
      /\ \A a \in DOMAIN invocations :
           invocations[a].st = "Failed" => invocations'[a] = invocations[a]
    ]_vars

NoAutomaticRetryWitness ==
  \E a, b \in DOMAIN invocations :
    /\ a < b
    /\ invocations[a].st = "Failed"
    /\ Len(invocations[a].calls) = 1
    /\ invocations[b].st = "Failed"
    /\ invocations[b].calls = <<>>

TerminalMessages(toast) ==
  Cardinality({k \in DOMAIN toast : toast[k].kind \in {"success", "error"}})

\* C10: every attempt that leaves Idle eventually reaches Succeeded or
\* Failed, a terminated attempt has surfaced exactly one terminal message
\* (an attempt in flight none), and afterwards the Deploy button is enabled
\* again.
EveryAttemptTerminates ==
  /\ \A a \in 1..MaxInvocations :
       (a \in DOMAIN invocations /\ invocations[a].st \in InFlight)
         ~> (a \in DOMAIN invocations /\ invocations[a].st \in Terminal)
  /\ [](\A a \in DOMAIN invocations :
          /\ invocations[a].st \in Terminal
               => TerminalMessages(invocations[a].toast) = 1
          /\ invocations[a].st \in InFlight
               => TerminalMessages(invocations[a].toast) = 0)
  /\ \A a \in 1..MaxInvocations :
       (a \in DOMAIN invocations /\ invocations[a].st \in Terminal)
         ~> ~isDeploying

EveryAttemptTerminatesWitness ==
  \E a, b \in DOMAIN invocations :
    /\ invocations[a].st = "Succeeded"
    /\ invocations[b].st = "Failed"
    /\ ~isDeploying

====
